---- MODULE Spec2Model ----
(***************************************************************************)
(* HeliumSCHA, potential/helium_ensemble.py: the HeliumEnsemble adapter    *)
(* (compute_ensemble, get_energy_forces) and the module-level block that   *)
(* loads the Julia kernel.                                                 *)
(*                                                                         *)
(* Two specifications share the module's variables:                        *)
(*   Spec      calls of the two methods on one ensemble, statement by      *)
(*             statement, for every state of the module globals the        *)
(*             methods can be run against;                                 *)
(*   LoadSpec  the import of the module: Python compiles the file line by  *)
(*             line before it runs any of it, and the indentation of the   *)
(*             load block, lines 5-24, decides how that ends.              *)
(***************************************************************************)
EXTENDS Integers, Sequences, FiniteSets, TLC

VARIABLES
    ens,        \* the ensemble object: xats, energies, forces, force_computed, has_stress, objs
    globals,    \* names bound in the module namespace
    mainLoaded, \* julia.Main has been imported (it is an attribute of julia)
    kernelDefined, \* compute_potential.jl has been included: Main.compute_ensemble_py exists
    entry,      \* the method the caller invoked: none, compute_ensemble, get_energy_forces
    pc,         \* position of the running call: idle, a line of the file, returned, raised
    stack,      \* the frames of the running call, outermost first
    callArgs,   \* the extra arguments each frame was entered with
    kout,       \* what the kernel did in this call
    karg,       \* what the kernel was invoked with in this call
    outcome,    \* none | running | ok | the error that reached the caller
    trace,      \* the effects of this call, in the order they happened
    pre,        \* the ensemble as it was when the caller made this call
    lpc,        \* the import of the module: off, scan, compiled, raised
    loadEnv,    \* what each external step of the load block would do if it were run
    exc,        \* the error the import of the module raised
    warned,     \* number of warnings emitted by the load block
    scanPos,    \* the logical line of the file the compiler is at
    indents     \* the compiler's stack of indentation columns

vars == <<ens, globals, mainLoaded, kernelDefined, entry, pc, stack, callArgs, kout, karg,
          outcome, trace, pre, lpc, loadEnv, exc, warned, scanPos, indents>>

callVars == <<ens, entry, pc, stack, callArgs, kout, karg, outcome, trace, pre>>
loadVars == <<lpc, loadEnv, exc, warned, scanPos, indents>>
nsVars == <<globals, mainLoaded, kernelDefined>>

\* ---------------------------------------------------------------- bounds

\* Largest number of configurations an ensemble holds.
MaxN == 2

\* Values an energy or a force entry takes; 0 is the value of a fresh array.
Vals == {0, 1}

\* The configuration sequences an ensemble holds: n distinct configurations,
\* numbered, in ascending or in descending order.
XatsChoices(n) == {[i \in 1..n |-> i], [i \in 1..n |-> n + 1 - i]}

\* Extra positional or keyword arguments a caller passes.
ArgChoices == {"none", "extra"}

\* Errors the kernel raises when it is invoked.
KernelErrors == {"JuliaError", "RuntimeError"}

SeqsOfLen(S, n) == [1..n -> S]

SeqsUpTo(S, n) == UNION {SeqsOfLen(S, k) : k \in 0..n}

\* ------------------------------------------------------- module namespace

\* Names the import statements of lines 1-3 bind.
ModuleImports == {"CC", "cellconstructor", "np", "sscha"}

\* Evaluating a global name: its value is found or NameError is raised.
NameLookup(name, ns) == IF name \in ns THEN "ok" ELSE "NameError"

\* Variant: the lookup reports the kernel although it is not there.
KernelLookupAlwaysOk(ns, main, kdef) == "ok"

\* Evaluating julia.Main.compute_ensemble_py at line 34.
KernelLookup(ns, main, kdef) ==
    IF NameLookup("julia", ns) # "ok" THEN "NameError"
    ELSE IF ~main THEN "AttributeError"
    ELSE IF ~kdef THEN "AttributeError"
    ELSE "ok"

\* --------------------------------------------------------------- ensemble

Zeros(n) == [i \in 1..n |-> 0]

AllFlags(n, b) == [i \in 1..n |-> b]

\* The objects the ensemble's attributes refer to.
EnsObjs == [energies |-> "ens_energies", forces |-> "ens_forces",
            force_computed |-> "ens_force_computed"]

\* An ensemble as the host framework hands it over before any computation.
FreshEnsemble(xs, stress) ==
    [xats |-> xs, energies |-> Zeros(Len(xs)), forces |-> Zeros(Len(xs)),
     force_computed |-> AllFlags(Len(xs), FALSE), has_stress |-> stress,
     objs |-> EnsObjs]

\* ----------------------------------------------------------------- kernel

NoKernel == [kind |-> "none"]

\* What julia.Main.compute_ensemble_py does with a configuration sequence: it
\* raises, or returns a pair of arrays, aligned with the sequence or not.
KernelOutcomes(xs) ==
    {[kind |-> "raise", err |-> e] : e \in KernelErrors}
    \cup {[kind |-> "result", energies |-> e, forces |-> f] :
             e \in SeqsUpTo(Vals, Len(xs) + 1), f \in SeqsUpTo(Vals, Len(xs) + 1)}

Aligned(ko, xs) ==
    /\ ko.kind = "result"
    /\ Len(ko.energies) = Len(xs)
    /\ Len(ko.forces) = Len(xs)

\* ----------------------------------------------- statements of the method

\* numpy: a value of n entries can be assigned to a slice of m entries when
\* n = m, or when n = 1 and the entry is broadcast.
BroadcastOK(dst, src) == Len(src) = Len(dst) \/ Len(src) = 1

SliceAssign(dst, src) ==
    [i \in 1..Len(dst) |-> IF Len(src) = Len(dst) THEN src[i] ELSE src[1]]

\* Variant: the flags are raised together with the stress flag, before the
\* kernel is invoked.
StmtStressAlsoFlags(e) ==
    [e EXCEPT !.has_stress = FALSE,
              !.force_computed = AllFlags(Len(e.force_computed), TRUE)]

\* line 32: self.has_stress = False
StmtStress(e) == [e EXCEPT !.has_stress = FALSE]

\* Variant: the slice stops one entry short.
StmtFlagsSkipLast(e) ==
    [e EXCEPT !.force_computed =
        [i \in 1..Len(e.force_computed) |->
            IF i < Len(e.force_computed) THEN TRUE ELSE e.force_computed[i]]]

\* line 37: self.force_computed[:] = True
StmtFlags(e) == [e EXCEPT !.force_computed = AllFlags(Len(e.force_computed), TRUE)]

\* line 38: self.forces[:, :, :] = forces
StmtForces(e, f) == [e EXCEPT !.forces = SliceAssign(e.forces, f)]

\* Variant: the attribute is rebound to the kernel's array instead of being
\* written in place.
StmtEnergiesRebind(e, en) ==
    [e EXCEPT !.energies = en, !.objs.energies = "kernel_energies"]

\* line 39: self.energies[:] = energies
StmtEnergies(e, en) == [e EXCEPT !.energies = SliceAssign(e.energies, en)]

\* line 41: self.init(), the host framework's hook; it rebuilds the ensemble's
\* derived quantities and leaves the fields of this model alone.
StmtInit(e) == e

\* Variant: the kernel is handed the configurations in reverse order.
KernelArgumentReversed(e) ==
    [i \in 1..Len(e.xats) |-> e.xats[Len(e.xats) + 1 - i]]

\* The argument line 34 passes to the kernel.
KernelArgument(e) == e.xats

\* The arguments line 44 forwards to compute_ensemble.
ForwardedArgs(a) == "none"

\* Variant: get_energy_forces wraps its call in try/except Exception.
HandlersGefCatches(frame) ==
    IF frame = "get_energy_forces" THEN {"Exception"} ELSE {}

\* Variant: compute_ensemble wraps its body in try/except Exception.
HandlersComputeCatches(frame) ==
    IF frame = "compute_ensemble" THEN {"Exception"} ELSE {}

\* The exception classes a frame of the adapter catches: the two methods
\* contain no try statement.
Handlers(frame) == {}

\* An error raised in the innermost frame: it reaches the caller unless a
\* frame on the stack catches it.
Caught(stk, err) == \E i \in 1..Len(stk) : Handlers(stk[i]) # {}

\* Where control goes when compute_ensemble finishes normally.
AfterReturn(stk) == IF Len(stk) > 1 THEN "L44_done" ELSE "returned"

Push(tr, ev) == Append(tr, ev)

\* compute_ensemble as one function of the ensemble it is called on, the
\* result of looking the kernel up and what the kernel does: the ensemble it
\* leaves, how it ends, and how often it invoked the hook.
ComputeEnsembleRun(e0, lookup, ko) ==
    LET e1 == StmtStress(e0)
        e2 == StmtFlags(e1)
        e3 == StmtForces(e2, ko.forces)
        e4 == StmtEnergies(e3, ko.energies)
    IN  IF lookup # "ok" THEN [ens |-> e1, outcome |-> lookup, inits |-> 0]
        ELSE IF ko.kind = "raise" THEN [ens |-> e1, outcome |-> ko.err, inits |-> 0]
        ELSE IF ~BroadcastOK(e2.forces, ko.forces)
             THEN [ens |-> e2, outcome |-> "ValueError", inits |-> 0]
        ELSE IF ~BroadcastOK(e3.energies, ko.energies)
             THEN [ens |-> e3, outcome |-> "ValueError", inits |-> 0]
        ELSE [ens |-> StmtInit(e4), outcome |-> "ok", inits |-> 1]

\* ------------------------------------------------------ module-level load

\* The external steps of the load block, each of which would work or fail.
LoadSteps == {"importJulia", "importApi", "juliaCtor", "importMain",
              "include1", "install", "include2"}

\* The logical lines of the file as stored: the line number, the column its
\* first token starts at, and whether it ends in a colon and so opens a block.
\* Blank lines, comment lines and the continuation lines 12 and 19 are none.
SourceLines == <<
    [line |-> 1, indent |-> 0, opens |-> FALSE],
    [line |-> 2, indent |-> 0, opens |-> FALSE],
    [line |-> 3, indent |-> 0, opens |-> FALSE],
    [line |-> 5, indent |-> 0, opens |-> TRUE],
    [line |-> 6, indent |-> 4, opens |-> FALSE],
    [line |-> 7, indent |-> 7, opens |-> TRUE],
    [line |-> 8, indent |-> 11, opens |-> FALSE],
    [line |-> 9, indent |-> 11, opens |-> FALSE],
    [line |-> 10, indent |-> 11, opens |-> FALSE],
    [line |-> 11, indent |-> 11, opens |-> FALSE],
    [line |-> 13, indent |-> 11, opens |-> FALSE],
    [line |-> 14, indent |-> 7, opens |-> TRUE],
    [line |-> 16, indent |-> 11, opens |-> FALSE],
    [line |-> 17, indent |-> 11, opens |-> TRUE],
    [line |-> 18, indent |-> 15, opens |-> FALSE],
    [line |-> 20, indent |-> 15, opens |-> FALSE],
    [line |-> 21, indent |-> 11, opens |-> TRUE],
    [line |-> 22, indent |-> 15, opens |-> FALSE],
    [line |-> 23, indent |-> 3, opens |-> TRUE],
    [line |-> 24, indent |-> 7, opens |-> FALSE],
    [line |-> 29, indent |-> 0, opens |-> TRUE],
    [line |-> 30, indent |-> 4, opens |-> TRUE],
    [line |-> 32, indent |-> 8, opens |-> FALSE],
    [line |-> 34, indent |-> 8, opens |-> FALSE],
    [line |-> 37, indent |-> 8, opens |-> FALSE],
    [line |-> 38, indent |-> 8, opens |-> FALSE],
    [line |-> 39, indent |-> 8, opens |-> FALSE],
    [line |-> 41, indent |-> 8, opens |-> FALSE],
    [line |-> 43, indent |-> 4, opens |-> TRUE],
    [line |-> 44, indent |-> 8, opens |-> FALSE] >>

Top(stk) == stk[Len(stk)]

RECURSIVE PopTo(_, _)
\* The indentation stack with the columns right of col closed.
PopTo(stk, col) ==
    IF Len(stk) > 1 /\ Top(stk) > col THEN PopTo(SubSeq(stk, 1, Len(stk) - 1), col)
    ELSE stk

\* Python's indentation rule for one logical line, given the stack of open
\* columns and whether the line before opened a block: a deeper line is
\* accepted only after a colon; a shallower line must return to a column that
\* is open, which the tokenizer checks first; and a line after a colon must be
\* deeper, which the parser checks after it.
ScanLine(stk, prevOpens, ln) ==
    IF ln.indent > Top(stk)
    THEN IF prevOpens THEN [err |-> "none", stack |-> Append(stk, ln.indent)]
         ELSE [err |-> "IndentationError: unexpected indent", stack |-> stk]
    ELSE IF Top(PopTo(stk, ln.indent)) # ln.indent
         THEN [err |-> "IndentationError: unindent does not match any outer indentation level",
               stack |-> stk]
    ELSE IF prevOpens
         THEN [err |-> "IndentationError: expected an indented block", stack |-> stk]
    ELSE [err |-> "none", stack |-> PopTo(stk, ln.indent)]

\* Whether the line before the one at position k opened a block.
PrevOpens(k) == k > 1 /\ SourceLines[k - 1].opens

\* ------------------------------------------------------------------ Init

CallIdle ==
    /\ entry = "none"
    /\ pc = "idle"
    /\ stack = <<>>
    /\ callArgs = <<>>
    /\ kout = NoKernel
    /\ karg = <<>>
    /\ outcome = "none"
    /\ trace = <<>>
    /\ pre = ens

LoadNotRunning ==
    /\ lpc = "off"
    /\ loadEnv = [f \in LoadSteps |-> TRUE]
    /\ exc = "none"
    /\ warned = 0
    /\ scanPos = 1
    /\ indents = <<0>>

\* The module globals a call can find: julia bound or not, julia.Main imported
\* or not, the kernel script included or not.
Init ==
    /\ \E n \in 0..MaxN, s \in BOOLEAN :
          \E xs \in XatsChoices(n) : ens = FreshEnsemble(xs, s)
    /\ \E j \in BOOLEAN, m \in BOOLEAN, k \in BOOLEAN :
          /\ (m => j) /\ (k => m)
          /\ globals = ModuleImports \cup {"HeliumEnsemble"} \cup (IF j THEN {"julia"} ELSE {})
          /\ mainLoaded = m
          /\ kernelDefined = k
    /\ CallIdle
    /\ LoadNotRunning

\* --------------------------------------------------------------- actions

\* Raise err at the current statement, with the ensemble left as e.
RaiseFrom(e, err) ==
    /\ ens' = e
    /\ pc' = IF Caught(stack, err) THEN "returned" ELSE "raised"
    /\ outcome' = IF Caught(stack, err) THEN "ok" ELSE err
    /\ stack' = <<>>

\* The host calls ensemble.compute_ensemble(*args, **kwargs).
CallComputeEnsemble ==
    /\ pc = "idle"
    /\ \E a \in ArgChoices : callArgs' = <<a>>
    /\ entry' = "compute_ensemble"
    /\ stack' = <<"compute_ensemble">>
    /\ pc' = "L32"
    /\ outcome' = "running"
    /\ pre' = ens
    /\ trace' = <<>>
    /\ kout' = NoKernel
    /\ karg' = <<>>
    /\ UNCHANGED <<ens, nsVars, loadVars>>

\* The host calls ensemble.get_energy_forces(*args, **kwargs).
CallGetEnergyForces ==
    /\ pc = "idle"
    /\ \E a \in ArgChoices : callArgs' = <<a>>
    /\ entry' = "get_energy_forces"
    /\ stack' = <<"get_energy_forces">>
    /\ pc' = "L44"
    /\ outcome' = "running"
    /\ pre' = ens
    /\ trace' = <<>>
    /\ kout' = NoKernel
    /\ karg' = <<>>
    /\ UNCHANGED <<ens, nsVars, loadVars>>

\* line 44: self.compute_ensemble()
L44 ==
    /\ pc = "L44"
    /\ stack' = Append(stack, "compute_ensemble")
    /\ callArgs' = Append(callArgs, ForwardedArgs(callArgs[Len(callArgs)]))
    /\ pc' = "L32"
    /\ UNCHANGED <<entry, ens, kout, karg, outcome, trace, pre, nsVars, loadVars>>

\* Variant: the statement of line 32 is missing.
L32SkipStress ==
    /\ pc = "L32"
    /\ pc' = "L34"
    /\ UNCHANGED <<entry, ens, trace, stack, callArgs, kout, karg, outcome, pre,
                   nsVars, loadVars>>

\* line 32
L32 ==
    /\ pc = "L32"
    /\ ens' = StmtStress(ens)
    /\ trace' = Push(trace, "stress")
    /\ pc' = "L34"
    /\ UNCHANGED <<entry, stack, callArgs, kout, karg, outcome, pre, nsVars, loadVars>>

\* line 34, the kernel cannot be looked up
L34Lookup ==
    /\ pc = "L34"
    /\ KernelLookup(globals, mainLoaded, kernelDefined) # "ok"
    /\ RaiseFrom(ens, KernelLookup(globals, mainLoaded, kernelDefined))
    /\ UNCHANGED <<entry, callArgs, kout, karg, trace, pre, nsVars, loadVars>>

\* line 34, the kernel is invoked and raises
L34Raise ==
    /\ pc = "L34"
    /\ KernelLookup(globals, mainLoaded, kernelDefined) = "ok"
    /\ \E ko \in KernelOutcomes(KernelArgument(ens)) :
          /\ ko.kind = "raise"
          /\ kout' = ko
          /\ RaiseFrom(ens, ko.err)
    /\ karg' = KernelArgument(ens)
    /\ trace' = Push(trace, "kernel")
    /\ UNCHANGED <<entry, callArgs, pre, nsVars, loadVars>>

\* line 34, the kernel is invoked and returns
L34Result ==
    /\ pc = "L34"
    /\ KernelLookup(globals, mainLoaded, kernelDefined) = "ok"
    /\ \E ko \in KernelOutcomes(KernelArgument(ens)) :
          /\ ko.kind = "result"
          /\ kout' = ko
    /\ karg' = KernelArgument(ens)
    /\ trace' = Push(trace, "kernel")
    /\ pc' = "L37"
    /\ UNCHANGED <<entry, ens, stack, callArgs, outcome, pre, nsVars, loadVars>>

\* line 37
L37 ==
    /\ pc = "L37"
    /\ ens' = StmtFlags(ens)
    /\ trace' = Push(trace, "flags")
    /\ pc' = "L38"
    /\ UNCHANGED <<entry, stack, callArgs, kout, karg, outcome, pre, nsVars, loadVars>>

\* line 38
L38 ==
    /\ pc = "L38"
    /\ IF BroadcastOK(ens.forces, kout.forces)
       THEN /\ ens' = StmtForces(ens, kout.forces)
            /\ trace' = Push(trace, "forces")
            /\ pc' = "L39"
            /\ UNCHANGED <<stack, outcome>>
       ELSE /\ RaiseFrom(ens, "ValueError")
            /\ UNCHANGED trace
    /\ UNCHANGED <<entry, callArgs, kout, karg, pre, nsVars, loadVars>>

\* line 39
L39 ==
    /\ pc = "L39"
    /\ IF BroadcastOK(ens.energies, kout.energies)
       THEN /\ ens' = StmtEnergies(ens, kout.energies)
            /\ trace' = Push(trace, "energies")
            /\ pc' = "L41"
            /\ UNCHANGED <<stack, outcome>>
       ELSE /\ RaiseFrom(ens, "ValueError")
            /\ UNCHANGED trace
    /\ UNCHANGED <<entry, callArgs, kout, karg, pre, nsVars, loadVars>>

\* line 41, and the return of compute_ensemble to its caller
L41 ==
    /\ pc = "L41"
    /\ ens' = StmtInit(ens)
    /\ trace' = Push(trace, "init")
    /\ pc' = AfterReturn(stack)
    /\ stack' = SubSeq(stack, 1, Len(stack) - 1)
    /\ outcome' = IF AfterReturn(stack) = "returned" THEN "ok" ELSE outcome
    /\ UNCHANGED <<entry, callArgs, kout, karg, pre, nsVars, loadVars>>

\* get_energy_forces returns after line 44
L44Done ==
    /\ pc = "L44_done"
    /\ pc' = "returned"
    /\ stack' = <<>>
    /\ outcome' = "ok"
    /\ UNCHANGED <<entry, ens, callArgs, kout, karg, trace, pre, nsVars, loadVars>>

\* The caller has control again and goes on.
Resume ==
    /\ pc \in {"returned", "raised"}
    /\ pc' = "idle"
    /\ entry' = "none"
    /\ stack' = <<>>
    /\ callArgs' = <<>>
    /\ kout' = NoKernel
    /\ karg' = <<>>
    /\ outcome' = "none"
    /\ trace' = <<>>
    /\ pre' = ens
    /\ UNCHANGED <<ens, nsVars, loadVars>>

Next ==
    \/ CallComputeEnsemble
    \/ CallGetEnergyForces
    \/ L44
    \/ L32
    \/ L34Lookup
    \/ L34Raise
    \/ L34Result
    \/ L37
    \/ L38
    \/ L39
    \/ L41
    \/ L44Done
    \/ Resume

Spec == Init /\ [][Next]_vars

\* ----------------------------------------------------- import of the module

\* The module is imported in an environment in which each external step of the
\* load block would work or fail; nothing of the file has run.
LoadInit ==
    /\ ens = FreshEnsemble(<<>>, TRUE)
    /\ CallIdle
    /\ globals = {}
    /\ mainLoaded = FALSE
    /\ kernelDefined = FALSE
    /\ lpc = "scan"
    /\ loadEnv \in [LoadSteps -> BOOLEAN]
    /\ exc = "none"
    /\ warned = 0
    /\ scanPos = 1
    /\ indents = <<0>>

\* The compiler takes the next logical line of the file. An indentation error
\* ends the import before any statement runs; it is raised where the module is
\* imported, outside the try statements of the file.
LoadScan ==
    /\ lpc = "scan"
    /\ LET r == ScanLine(indents, PrevOpens(scanPos), SourceLines[scanPos])
       IN  IF r.err # "none"
           THEN /\ lpc' = "raised"
                /\ exc' = r.err
                /\ UNCHANGED <<scanPos, indents>>
           ELSE /\ indents' = r.stack
                /\ UNCHANGED exc
                /\ IF scanPos = Len(SourceLines)
                   THEN lpc' = "compiled" /\ UNCHANGED scanPos
                   ELSE lpc' = "scan" /\ scanPos' = scanPos + 1
    /\ UNCHANGED <<callVars, nsVars, loadEnv, warned>>

LoadNext ==
    LoadScan

LoadSpec == LoadInit /\ [][LoadNext]_vars

\* ---------------------------------------------------------------- claims

\* The call has handed control back to its caller.
HandedBack == pc \in {"returned", "raised"}

Count(tr, ev) == Cardinality({i \in DOMAIN tr : tr[i] = ev})

Pos(tr, ev) == CHOOSE i \in DOMAIN tr : tr[i] = ev

N == Len(ens.xats)

\* The kernel bridge is not initialised: julia is not bound, julia.Main was not
\* imported, or the kernel script was not included.
KernelUnavailable == "julia" \notin globals \/ ~mainLoaded \/ ~kernelDefined

\* C1: when a call returns normally and the kernel returned N energies and N
\* force entries, the ensemble's N energies and N forces are the kernel's
\* values of this call, all N computed-flags are true and has_stress is false,
\* whatever the ensemble held before.
C1_AllPopulated ==
    (pc = "returned" /\ Aligned(kout, pre.xats)) =>
        /\ Len(ens.energies) = N /\ ens.energies = kout.energies
        /\ Len(ens.forces) = N /\ ens.forces = kout.forces
        /\ Len(ens.force_computed) = N
        /\ \A i \in 1..N : ens.force_computed[i]
        /\ ens.has_stress = FALSE

\* A second call on an ensemble of two configurations that already held other
\* values and raised flags has returned.
C1_Witness ==
    /\ pc = "returned" /\ Aligned(kout, pre.xats) /\ N = 2
    /\ pre.force_computed = <<TRUE, TRUE>>
    /\ pre.energies # kout.energies /\ pre.forces # kout.forces
    /\ ens.energies = kout.energies

\* C2: index i of the output is configuration i of the input: the kernel was
\* handed xats in the ensemble's order, and energies[i] and forces[i] are the
\* kernel's i-th entries, with no permutation, filtering or offset.
C2_IndexAligned ==
    (pc = "returned" /\ Aligned(kout, pre.xats)) =>
        /\ karg = ens.xats
        /\ \A i \in 1..N :
              /\ ens.energies[i] = kout.energies[i]
              /\ ens.forces[i] = kout.forces[i]

\* A call has returned with two entries that differ, so that a permutation
\* would show.
C2_Witness ==
    /\ pc = "returned" /\ Aligned(kout, pre.xats) /\ N = 2
    /\ kout.energies[1] # kout.energies[2]
    /\ kout.forces[1] # kout.forces[2]
    /\ ens.xats[1] # ens.xats[2]

\* C3: with the kernel bridge not initialised (julia unbound, julia.Main not
\* imported, or the kernel script not included) a call never completes
\* normally and never reaches the copy steps: it ends in NameError or
\* AttributeError, the kernel having produced nothing.
C3_UnavailableRaises ==
    KernelUnavailable =>
        /\ pc \notin {"returned", "L37", "L38", "L39", "L41", "L44_done"}
        /\ kout = NoKernel
        /\ pc = "raised" => outcome \in {"NameError", "AttributeError"}

\* A call on an ensemble of two configurations has ended in NameError with
\* julia unbound.
C3_Witness ==
    /\ "julia" \notin globals /\ pc = "raised" /\ outcome = "NameError" /\ N = 2

\* C4: a call of get_energy_forces, whatever its extra arguments, leaves the
\* ensemble, ends and invokes the hook exactly as compute_ensemble does from
\* the same initial ensemble with the same kernel behaviour.
C4_ForwardingEquivalent ==
    (HandedBack /\ entry = "get_energy_forces") =>
        LET r == ComputeEnsembleRun(pre,
                    KernelLookup(globals, mainLoaded, kernelDefined), kout)
        IN  /\ ens = r.ens
            /\ outcome = r.outcome
            /\ Count(trace, "init") = r.inits

\* A call of get_energy_forces with extra arguments has ended in the kernel's
\* error.
C4_Witness ==
    /\ HandedBack /\ entry = "get_energy_forces" /\ callArgs[1] = "extra"
    /\ kout.kind = "raise" /\ outcome = kout.err

\* C5: wherever a call hands control back, by return or by an error, no
\* computed-flag is true for an entry whose energy or force was not installed
\* from this call's kernel result.
C5_NoPartialCompletion ==
    HandedBack =>
        \A i \in 1..Len(ens.force_computed) :
            ens.force_computed[i] =>
                /\ Count(trace, "forces") = 1
                /\ Count(trace, "energies") = 1

\* One of the steps of the first attempt of the load block fails.
FailurePath ==
    \E st \in {"importJulia", "importApi", "juliaCtor", "importMain", "include1"} :
        ~loadEnv[st]

\* C6: the import of the module never raises; when it has ended on a failure
\* path of the load block a warning was emitted and __JULIA_EXT__ is not set,
\* and __JULIA_EXT__ is set only when the kernel script was included.
C6_LoadBestEffort ==
    /\ lpc # "raised"
    /\ (lpc = "compiled" /\ FailurePath /\ ~kernelDefined) =>
            (warned >= 1 /\ "__JULIA_EXT__" \notin globals)
    /\ "__JULIA_EXT__" \in globals => kernelDefined

\* C7: an error raised by the kernel reaches the caller as it is: the call ends
\* raised with that very error, the kernel having been invoked once.
C7_KernelErrorPropagates ==
    kout.kind = "raise" =>
        /\ pc = "raised"
        /\ outcome = kout.err
        /\ Count(trace, "kernel") = 1

\* A call through get_energy_forces has ended in the kernel's RuntimeError.
C7_Witness ==
    /\ kout.kind = "raise" /\ kout.err = "RuntimeError" /\ pc = "raised"
    /\ entry = "get_energy_forces"

\* C8: a call that returns normally has set has_stress false, then invoked the
\* kernel once with the whole configuration sequence, then written the flags,
\* the forces and the energies once each, then invoked init() once.
C8_StepOrder ==
    pc = "returned" =>
        /\ \A ev \in {"stress", "kernel", "flags", "forces", "energies", "init"} :
              Count(trace, ev) = 1
        /\ Len(trace) = 6
        /\ Pos(trace, "stress") < Pos(trace, "kernel")
        /\ \A ev \in {"flags", "forces", "energies"} :
              /\ Pos(trace, "kernel") < Pos(trace, ev)
              /\ Pos(trace, ev) < Pos(trace, "init")
        /\ karg = pre.xats

\* A call on two configurations has returned normally.
C8_Witness ==
    /\ pc = "returned" /\ N = 2 /\ Len(karg) = 2 /\ Count(trace, "init") = 1

\* C9 as stated: when a call hands control back it has changed nothing of the
\* ensemble but the contents of the force, energy and flag arrays.
C9_OnlyArraysWritten ==
    HandedBack =>
        /\ ens.xats = pre.xats
        /\ ens.has_stress = pre.has_stress
        /\ ens.objs = pre.objs
        /\ Len(ens.energies) = Len(pre.energies)
        /\ Len(ens.forces) = Len(pre.forces)
        /\ Len(ens.force_computed) = Len(pre.force_computed)

\* C9, amended: a call changes nothing of the ensemble but the contents of the
\* force, energy and flag arrays, written in place, and has_stress, which it
\* sets to false; xats is as it was.
C9_OnlyArraysAndStressWritten ==
    /\ ens.xats = pre.xats
    /\ ens.has_stress # pre.has_stress => ens.has_stress = FALSE
    /\ ens.objs = pre.objs
    /\ Len(ens.energies) = Len(pre.energies)
    /\ Len(ens.forces) = Len(pre.forces)
    /\ Len(ens.force_computed) = Len(pre.force_computed)

\* A call has written all three arrays of a two-configuration ensemble and
\* has changed has_stress.
C9_Witness ==
    /\ pc = "returned" /\ N = 2
    /\ ens.energies # pre.energies /\ ens.forces # pre.forces
    /\ ens.force_computed # pre.force_computed
    /\ pre.has_stress /\ ~ens.has_stress
    /\ ens.xats = pre.xats

\* C10: when the kernel call fails, by lookup or by the kernel raising, the
\* ensemble is as it was before the call except that has_stress is false, and
\* init() was not invoked.
C10_KernelFailureState ==
    (pc = "raised" /\ (KernelUnavailable \/ kout.kind = "raise")) =>
        /\ ens.energies = pre.energies
        /\ ens.forces = pre.forces
        /\ ens.force_computed = pre.force_computed
        /\ Count(trace, "init") = 0
        /\ ens = [pre EXCEPT !.has_stress = FALSE]

\* The kernel has raised in a call on an ensemble whose stress flag was set:
\* the ensemble is not as it was.
C10_Witness ==
    /\ pc = "raised" /\ kout.kind = "raise" /\ N = 2
    /\ pre.has_stress /\ ens # pre

====
